---- MODULE Spec2Model ----
(***************************************************************************)
(* Model of the PowerPoint MCP server's presentation tools                 *)
(* (tools/presentation_tools.py) and of its S3 storage handler             *)
(* (utils/s3_utils.py).                                                    *)
(*                                                                         *)
(* Python strings are sequences of one-character strings, so that          *)
(* basename, endswith, rstrip, lower and concatenation are computed the    *)
(* way Python computes them.  Fixed message texts are kept as one token.   *)
(* Python's None is the one-token sequence NoneVal, which no string made   *)
(* of characters equals.                                                   *)
(***************************************************************************)
EXTENDS Naturals, Sequences, FiniteSets, TLC

VARIABLES
    environ,        \* os.environ: the four S3 settings
    s3_handler,     \* utils.s3_utils._s3_handler: <<>> is None, <<h>> an instance
    presentations,  \* the registry passed to register_presentation_tools
    config_read,    \* S3Handler.__init__ has read the configuration at least once
    response        \* the tool call whose result is on its way to the client, or Idle

vars == <<environ, s3_handler, presentations, config_read, response>>

(***************************************************************************)
(* Bounds of the model.                                                    *)
(***************************************************************************)
MaxExt == 2            \* a requested name carries at most this many extensions
MaxSlashes == 2        \* an S3_PREFIX ends in at most this many "/"
MaxPres == 2           \* the registry holds at most this many presentations

(***************************************************************************)
(* Python values and string functions.                                     *)
(***************************************************************************)
NoneVal == <<"<None>">>

UpperChars == <<"A","B","C","D","E","F","G","H","I","J","K","L","M",
                "N","O","P","Q","R","S","T","U","V","W","X","Y","Z">>

LowerChars == <<"a","b","c","d","e","f","g","h","i","j","k","l","m",
                "n","o","p","q","r","s","t","u","v","w","x","y","z">>

DigitChars == <<"0","1","2","3","4","5","6","7","8","9">>

LowerChar(c) ==
    IF \E i \in DOMAIN UpperChars : UpperChars[i] = c
    THEN LowerChars[CHOOSE i \in DOMAIN UpperChars : UpperChars[i] = c]
    ELSE c

\* str.lower()
Lower(s) == [i \in DOMAIN s |-> LowerChar(s[i])]

\* str.endswith(suffix)
EndsWith(s, suffix) ==
    /\ Len(suffix) <= Len(s)
    /\ SubSeq(s, Len(s) - Len(suffix) + 1, Len(s)) = suffix

\* str.rstrip(ch): every trailing ch is removed
RECURSIVE RStrip(_, _)
RStrip(s, ch) ==
    IF s # <<>> /\ s[Len(s)] = ch THEN RStrip(SubSeq(s, 1, Len(s) - 1), ch) ELSE s

\* str.rfind(ch) + 1: the 1-based index of the last ch, 0 when there is none
RFindPlus1(s, ch) ==
    IF \E i \in DOMAIN s : s[i] = ch
    THEN CHOOSE i \in DOMAIN s : s[i] = ch /\ \A j \in DOMAIN s : s[j] = ch => j <= i
    ELSE 0

\* str(n) for a natural number
RECURSIVE IntToStr(_)
IntToStr(n) ==
    IF n < 10 THEN <<DigitChars[n + 1]>>
    ELSE IntToStr(n \div 10) \o <<DigitChars[(n % 10) + 1]>>

\* bool(x) of an Optional[str]
Truthy(x) == x # NoneVal /\ x # <<>>

\* the path taken whole, its directories kept
BasenameKeepDirs(p) == p

\* os.path.basename as posixpath computes it: what follows the last "/"
Basename(p) == SubSeq(p, RFindPlus1(p, "/") + 1, Len(p))

\* os.getenv(name, default)
GetEnv(env, name, default) == IF env[name] = NoneVal THEN default ELSE env[name]

(***************************************************************************)
(* String literals of the source.                                          *)
(***************************************************************************)
PptxExt == <<".","p","p","t","x">>
StrTrue == <<"t","r","u","e">>
StrFalse == <<"f","a","l","s","e">>
DefaultPrefix == <<"p","r","e","s","e","n","t","a","t","i","o","n","s","/">>
DefaultRegion == <<"u","s","-","e","a","s","t","-","1">>
S3Scheme == <<"s","3",":","/","/">>
HttpsScheme == <<"h","t","t","p","s",":","/","/">>
S3Dot == <<".","s","3",".">>
AmazonHost == <<".","a","m","a","z","o","n","a","w","s",".","c","o","m","/">>
NotLoadedMsg == <<"No presentation is currently loaded or the specified ID is invalid">>

NoExc == [cls |-> "none", msg |-> <<>>]
Raise(cls, msg) == [cls |-> cls, msg |-> msg]
Call(fn, args) == [fn |-> fn, args |-> args]

(***************************************************************************)
(* utils/s3_utils.py                                                       *)
(***************************************************************************)
\* What a collaborator call can do: return, or raise an exception of a class
\* the callers distinguish.
ClientOutcomes == {"ok", "NoCredentialsError", "Exception"}     \* boto3.client
DocOutcomes == {"ok", "ValueError", "Exception"}                \* document library
S3Outcomes == {"ok", "ClientError", "Exception"}                \* S3 client methods

GetenvCalls ==
    << Call("os.getenv", <<<<"S3_ENABLED">>>>), Call("os.getenv", <<<<"S3_BUCKET_NAME">>>>),
       Call("os.getenv", <<<<"S3_PREFIX">>>>), Call("os.getenv", <<<<"AWS_DEFAULT_REGION">>>>) >>

\* S3Handler.s3_enabled as __init__ computes it
EnabledFlag(env) == Lower(GetEnv(env, "S3_ENABLED", StrFalse)) = StrTrue

\* a check that takes an empty bucket name for a bucket
BucketMissingOnlyNone(bucket) == bucket = NoneVal

\* __init__'s check of the bucket: it raises when this holds
BucketMissing(bucket) == ~Truthy(bucket)

\* S3Handler.__init__: [exc, self, calls]; co is what boto3.client does
S3HandlerInit(env, co) ==
    LET enabled == EnabledFlag(env)
        bucket == env["S3_BUCKET_NAME"]
        prefix == GetEnv(env, "S3_PREFIX", DefaultPrefix)
        region == GetEnv(env, "AWS_DEFAULT_REGION", DefaultRegion)
        self == [s3_enabled |-> enabled, s3_bucket |-> bucket, s3_prefix |-> prefix,
                 s3_region |-> region, s3_client |-> "None"]
        clientCall == Call("boto3.client", <<region>>)
    IN  IF enabled
        THEN IF BucketMissing(bucket)
             THEN [exc |-> Raise("ValueError", <<"S3_ENABLED is true but S3_BUCKET_NAME is not set">>),
                   self |-> <<>>, calls |-> GetenvCalls]
             ELSE IF co = "ok"
             THEN [exc |-> NoExc, self |-> <<[self EXCEPT !.s3_client = "client"]>>,
                   calls |-> Append(GetenvCalls, clientCall)]
             ELSE IF co = "NoCredentialsError"
             THEN [exc |-> Raise("ValueError", <<"AWS credentials not configured properly">>),
                   self |-> <<>>, calls |-> Append(GetenvCalls, clientCall)]
             ELSE [exc |-> Raise(co, <<"<boto3.client error>">>),
                   self |-> <<>>, calls |-> Append(GetenvCalls, clientCall)]
        ELSE [exc |-> NoExc, self |-> <<self>>, calls |-> GetenvCalls]

\* a handler constructed on every call, the cached instance ignored
GetS3HandlerUncached(h, env, co) ==
    LET r == S3HandlerInit(env, co)
    IN  [exc |-> r.exc, handler |-> IF r.exc = NoExc THEN r.self ELSE h,
         constructed |-> TRUE, calls |-> r.calls]

\* get_s3_handler: [exc, handler, constructed, calls]; handler is the new value
\* of the global _s3_handler
GetS3Handler(h, env, co) ==
    IF h = <<>>
    THEN LET r == S3HandlerInit(env, co)
         IN  [exc |-> r.exc, handler |-> r.self, constructed |-> TRUE, calls |-> r.calls]
    ELSE [exc |-> NoExc, handler |-> h, constructed |-> FALSE, calls |-> <<>>]

\* the extension appended to every name
EnsureExtensionAlways(filename) == filename \o PptxExt

\* "Ensure filename has .pptx extension"
EnsureExtension(filename) ==
    IF ~EndsWith(filename, PptxExt) THEN filename \o PptxExt ELSE filename

\* a normalization that removes one trailing "/" and no more
StripPrefixOnce(prefix) ==
    IF EndsWith(prefix, <<"/">>) THEN SubSeq(prefix, 1, Len(prefix) - 1) ELSE prefix

\* the prefix as the key uses it: s3_prefix.rstrip('/')
StripPrefix(prefix) == RStrip(prefix, "/")

\* a key built from the prefix as configured, its trailing "/" kept
S3KeyUnstripped(prefix, filename) == prefix \o <<"/">> \o filename

\* "Create S3 key"
S3Key(prefix, filename) == StripPrefix(prefix) \o <<"/">> \o filename

S3Url(bucket, key) == S3Scheme \o bucket \o <<"/">> \o key

HttpsUrl(bucket, region, key) == HttpsScheme \o bucket \o S3Dot \o region \o AmazonHost \o key

\* S3Handler.upload_presentation: [exc, result, calls]; so is what prs.save
\* does, uo what s3_client.upload_fileobj does
UploadPresentation(self, filename, so, uo) ==
    IF ~self.s3_enabled
    THEN [exc |-> Raise("ValueError", <<"S3 is not enabled. Set S3_ENABLED=true">>),
          result |-> <<>>, calls |-> <<>>]
    ELSE
    LET saveCall == Call("prs.save", <<<<"<BytesIO>">>>>)
        fname == EnsureExtension(filename)
        s3_key == S3Key(self.s3_prefix, fname)
        uploadCall == Call("s3_client.upload_fileobj", <<self.s3_bucket, s3_key>>)
    IN  IF so # "ok"
        THEN [exc |-> Raise(so, <<"<prs.save error>">>), result |-> <<>>, calls |-> <<saveCall>>]
        ELSE IF uo = "ClientError"
        THEN [exc |-> NoExc,
              result |-> [success |-> FALSE,
                          error |-> <<"Failed to upload to S3: ", "<ClientError>">>],
              calls |-> <<saveCall, uploadCall>>]
        ELSE IF uo # "ok"
        THEN [exc |-> Raise(uo, <<"<upload_fileobj error>">>), result |-> <<>>,
              calls |-> <<saveCall, uploadCall>>]
        ELSE [exc |-> NoExc,
              result |-> [success |-> TRUE,
                          s3_url |-> S3Url(self.s3_bucket, s3_key),
                          https_url |-> HttpsUrl(self.s3_bucket, self.s3_region, s3_key),
                          bucket |-> self.s3_bucket,
                          key |-> s3_key,
                          filename |-> fname],
              calls |-> <<saveCall, uploadCall>>]

\* the except clause of generate_presigned_url: the classes it turns into None
PresignCaught(cls) == cls = "ClientError"

\* S3Handler.generate_presigned_url: [exc, url, calls]; po is what
\* s3_client.generate_presigned_url does
GeneratePresignedUrl(self, s3_key, po) ==
    IF ~self.s3_enabled
    THEN [exc |-> NoExc, url |-> NoneVal, calls |-> <<>>]
    ELSE
    LET c == Call("s3_client.generate_presigned_url", <<self.s3_bucket, s3_key>>)
    IN  IF po = "ok"
        THEN [exc |-> NoExc, url |-> <<"<presigned>">> \o s3_key, calls |-> <<c>>]
        ELSE IF PresignCaught(po)
        THEN [exc |-> NoExc, url |-> NoneVal, calls |-> <<c>>]
        ELSE [exc |-> Raise(po, <<"<generate_presigned_url error>">>), url |-> NoneVal,
              calls |-> <<c>>]

(***************************************************************************)
(* tools/presentation_tools.py                                             *)
(***************************************************************************)
\* What a tool call did: it returned a mapping, or an exception left it.
Returned(value) == [raised |-> "none", value |-> value]
Escaped(exc) == [raised |-> exc.cls, value |-> <<>>]

\* f"presentation_{n}"
AutoId(n) == <<"presentation_">> \o IntToStr(n)

\* presentations[id] = pres
Store(reg, id, pres) == [x \in (DOMAIN reg) \cup {id} |-> IF x = id THEN pres ELSE reg[x]]

\* "Generate an ID if not provided"
GenerateId(reg, id) == IF id = NoneVal THEN AutoId(Cardinality(DOMAIN reg) + 1) ELSE id

RaiseTok == <<"<raises>">>

\* presentation_id if presentation_id is not None else get_current_presentation_id():
\* [exc, pres_id, calls]; cur is what the callback returns, RaiseTok when it raises
ResolveId(presentation_id, cur) ==
    IF presentation_id # NoneVal
    THEN [exc |-> NoExc, pres_id |-> presentation_id, calls |-> <<>>]
    ELSE IF cur = RaiseTok
    THEN [exc |-> Raise("Exception", <<"<callback error>">>), pres_id |-> NoneVal,
          calls |-> <<Call("get_current_presentation_id", <<>>)>>]
    ELSE [exc |-> NoExc, pres_id |-> cur, calls |-> <<Call("get_current_presentation_id", <<>>)>>]

\* a check that misses the ids the registry does not hold
NotLoadedOnlyNone(reg, pres_id) == pres_id = NoneVal

\* pres_id is None or pres_id not in presentations
NotLoaded(reg, pres_id) == pres_id = NoneVal \/ pres_id \notin DOMAIN reg

\* ppt_utils.save_presentation(pres, file_path): [exc, saved_path, calls]
LocalSave(file_path, lo) ==
    IF lo = "ok"
    THEN [exc |-> NoExc, saved_path |-> file_path,
          calls |-> <<Call("ppt_utils.save_presentation", <<file_path>>)>>]
    ELSE [exc |-> Raise(lo, <<"<save error>">>), saved_path |-> NoneVal,
          calls |-> <<Call("ppt_utils.save_presentation", <<file_path>>)>>]

\* the except clauses of save_presentation
IsConfigurationError(cls) == cls = "ValueError"

SaveExcept(exc) ==
    IF IsConfigurationError(exc.cls)
    THEN [success |-> FALSE,
          error |-> <<"Configuration error: ">> \o exc.msg
                    \o <<". Please check your S3 environment variables.">>]
    ELSE [success |-> FALSE, error |-> <<"Failed to save presentation: ">> \o exc.msg]

\* the response of a successful upload, with the presigned URL when there is one
S3Response(result, presigned_url, pres_id) ==
    LET resp == [success |-> TRUE,
                 message |-> <<"Presentation saved to S3: ">> \o result.s3_url,
                 storage_type |-> "s3",
                 s3_url |-> result.s3_url,
                 https_url |-> result.https_url,
                 bucket |-> result.bucket,
                 key |-> result.key,
                 filename |-> result.filename,
                 presentation_id |-> pres_id]
    IN  IF Truthy(presigned_url)
        THEN [presigned_url |-> presigned_url, presigned_url_expires |-> <<"1 hour">>]
             @@ [resp EXCEPT !.message =
                     @ \o <<"\n\nTemporary download URL (expires in 1 hour):\n">>
                       \o presigned_url]
        ELSE resp

\* the S3 branch of save_presentation: [exc, value, calls]
SaveToS3(self, file_path, pres_id, so, uo, po) ==
    LET filename == Basename(file_path)
        u == UploadPresentation(self, filename, so, uo)
        p == GeneratePresignedUrl(self, u.result.key, po)
    IN  IF u.exc # NoExc
        THEN [exc |-> u.exc, value |-> <<>>, calls |-> u.calls]
        ELSE IF u.result.success
        THEN IF p.exc # NoExc
             THEN [exc |-> p.exc, value |-> <<>>, calls |-> u.calls \o p.calls]
             ELSE [exc |-> NoExc, value |-> S3Response(u.result, p.url, pres_id),
                   calls |-> u.calls \o p.calls]
        ELSE [exc |-> NoExc,
              value |-> [success |-> FALSE, storage_type |-> "s3", error |-> u.result.error],
              calls |-> u.calls]

\* the local branch of save_presentation: [exc, value, calls]
SaveLocal(file_path, pres_id, lo) ==
    LET l == LocalSave(file_path, lo)
    IN  IF l.exc # NoExc
        THEN [exc |-> l.exc, value |-> <<>>, calls |-> l.calls]
        ELSE [exc |-> NoExc,
              value |-> [success |-> TRUE,
                         message |-> <<"Presentation saved to local file: ">> \o l.saved_path,
                         storage_type |-> "local",
                         file_path |-> l.saved_path,
                         presentation_id |-> pres_id],
              calls |-> l.calls]

\* a dispatch that saves locally when the remote branch did not succeed
SaveDispatchFallback(self, file_path, pres_id, so, uo, po, lo) ==
    LET remote == SaveToS3(self, file_path, pres_id, so, uo, po)
        loc == SaveLocal(file_path, pres_id, lo)
    IN  IF ~self.s3_enabled THEN loc
        ELSE IF remote.exc = NoExc /\ remote.value.success THEN remote
        ELSE [loc EXCEPT !.calls = remote.calls \o loc.calls]

\* the branch save_presentation takes once it holds a handler
SaveDispatch(self, file_path, pres_id, so, uo, po, lo) ==
    IF self.s3_enabled
    THEN SaveToS3(self, file_path, pres_id, so, uo, po)
    ELSE SaveLocal(file_path, pres_id, lo)

\* save_presentation: [ret, calls, handler, constructed]
SavePresentation(reg, h, env, file_path, presentation_id, cur, co, so, uo, po, lo) ==
    LET r == ResolveId(presentation_id, cur)
        g == GetS3Handler(h, env, co)
        b == SaveDispatch(g.handler[1], file_path, r.pres_id, so, uo, po, lo)
    IN  IF r.exc # NoExc
        THEN [ret |-> Escaped(r.exc), calls |-> r.calls, handler |-> h, constructed |-> FALSE]
        ELSE IF NotLoaded(reg, r.pres_id)
        THEN [ret |-> Returned([success |-> FALSE, error |-> NotLoadedMsg]),
              calls |-> r.calls, handler |-> h, constructed |-> FALSE]
        ELSE IF g.exc # NoExc
        THEN [ret |-> Returned(SaveExcept(g.exc)), calls |-> r.calls \o g.calls,
              handler |-> g.handler, constructed |-> g.constructed]
        ELSE IF b.exc # NoExc
        THEN [ret |-> Returned(SaveExcept(b.exc)), calls |-> r.calls \o g.calls \o b.calls,
              handler |-> g.handler, constructed |-> g.constructed]
        ELSE [ret |-> Returned(b.value), calls |-> r.calls \o g.calls \o b.calls,
              handler |-> g.handler, constructed |-> g.constructed]

\* os.path.join(directory, name) (posixpath)
PathJoin(directory, name) ==
    IF name # <<>> /\ name[1] = "/" THEN name
    ELSE IF directory = <<>> \/ directory[Len(directory)] = "/" THEN directory \o name
    ELSE directory \o <<"/">> \o name

\* ', '.join(dirs)
RECURSIVE JoinDirs(_)
JoinDirs(dirs) ==
    IF dirs = <<>> THEN <<>>
    ELSE IF Len(dirs) = 1 THEN dirs[1]
    ELSE dirs[1] \o <<",", " ">> \o JoinDirs(Tail(dirs))

\* The template lookup of create_presentation_from_template and
\* get_template_file_info (the PPT_TEMPLATE_PATH note that the first adds to
\* its not-found message is left out of the text):
\* [exc, found, path, error, calls].  exists: the
\* literal path exists; dirs: what get_template_search_directories returns,
\* RaiseTok when it raises; hit: the index of the first directory that holds
\* the template, 0 when none does.
FindTemplate(template_path, exists, dirs, hit) ==
    LET existsCall == Call("os.path.exists", <<template_path>>)
        dirsCall == Call("get_template_search_directories", <<>>)
        name == Basename(template_path)
    IN  IF exists
        THEN [exc |-> NoExc, found |-> TRUE, path |-> template_path, error |-> <<>>,
              calls |-> <<existsCall>>]
        ELSE IF dirs = RaiseTok
        THEN [exc |-> Raise("Exception", <<"<callback error>">>), found |-> FALSE,
              path |-> template_path, error |-> <<>>, calls |-> <<existsCall, dirsCall>>]
        ELSE IF hit \in DOMAIN dirs
        THEN [exc |-> NoExc, found |-> TRUE, path |-> PathJoin(dirs[hit], name),
              error |-> <<>>, calls |-> <<existsCall, dirsCall>>]
        ELSE [exc |-> NoExc, found |-> FALSE, path |-> template_path,
              error |-> <<"Template file not found: ">> \o template_path
                        \o <<". Searched in ">> \o JoinDirs(dirs),
              calls |-> <<existsCall, dirsCall>>]

\* create_presentation: [ret, calls, reg]; do is what ppt_utils.create_presentation does
CreatePresentation(reg, id, do) ==
    LET c == Call("ppt_utils.create_presentation", <<>>)
        newId == GenerateId(reg, id)
    IN  IF do # "ok"
        THEN [ret |-> Escaped(Raise(do, <<"<create error>">>)), calls |-> <<c>>, reg |-> reg]
        ELSE [ret |-> Returned([presentation_id |-> newId,
                                message |-> <<"Created new presentation with ID: ">> \o newId,
                                slide_count |-> <<"<len(pres.slides)>">>]),
              calls |-> <<c>>,
              reg |-> Store(reg, newId, "Presentation")]

\* create_presentation_from_template: [ret, calls, reg]
CreatePresentationFromTemplate(reg, template_path, id, exists, dirs, hit, do) ==
    LET f == FindTemplate(template_path, exists, dirs, hit)
        c == Call("ppt_utils.create_presentation_from_template", <<f.path>>)
        newId == GenerateId(reg, id)
    IN  IF f.exc # NoExc
        THEN [ret |-> Escaped(f.exc), calls |-> f.calls, reg |-> reg]
        ELSE IF ~f.found
        THEN [ret |-> Returned([error |-> f.error]), calls |-> f.calls, reg |-> reg]
        ELSE IF do # "ok"
        THEN [ret |-> Returned([error |-> <<"Failed to create presentation from template: ",
                                            "<str(e)>">>]),
              calls |-> Append(f.calls, c), reg |-> reg]
        ELSE [ret |-> Returned([presentation_id |-> newId,
                                message |-> <<"Created new presentation from template '">>
                                            \o f.path \o <<"' with ID: ">> \o newId,
                                template_path |-> f.path,
                                slide_count |-> <<"<len(pres.slides)>">>,
                                layout_count |-> <<"<len(pres.slide_layouts)>">>]),
              calls |-> Append(f.calls, c),
              reg |-> Store(reg, newId, "Presentation")]

\* open_presentation: [ret, calls, reg]
OpenPresentation(reg, file_path, id, exists, do) ==
    LET e == Call("os.path.exists", <<file_path>>)
        c == Call("ppt_utils.open_presentation", <<file_path>>)
        newId == GenerateId(reg, id)
    IN  IF ~exists
        THEN [ret |-> Returned([error |-> <<"File not found: ">> \o file_path]),
              calls |-> <<e>>, reg |-> reg]
        ELSE IF do # "ok"
        THEN [ret |-> Returned([error |-> <<"Failed to open presentation: ", "<str(e)>">>]),
              calls |-> <<e, c>>, reg |-> reg]
        ELSE [ret |-> Returned([presentation_id |-> newId,
                                message |-> <<"Opened presentation from ">> \o file_path
                                            \o <<" with ID: ">> \o newId,
                                slide_count |-> <<"<len(pres.slides)>">>]),
              calls |-> <<e, c>>,
              reg |-> Store(reg, newId, "Presentation")]

\* get_presentation_info: [ret, calls]
GetPresentationInfo(reg, presentation_id, cur, do) ==
    LET r == ResolveId(presentation_id, cur)
        c == Call("ppt_utils.get_presentation_info", <<r.pres_id>>)
    IN  IF r.exc # NoExc
        THEN [ret |-> Escaped(r.exc), calls |-> r.calls]
        ELSE IF NotLoaded(reg, r.pres_id)
        THEN [ret |-> Returned([error |-> NotLoadedMsg]), calls |-> r.calls]
        ELSE IF do # "ok"
        THEN [ret |-> Returned([error |-> <<"Failed to get presentation info: ", "<str(e)>">>]),
              calls |-> Append(r.calls, c)]
        ELSE [ret |-> Returned([info |-> <<"<info>">>, presentation_id |-> r.pres_id]),
              calls |-> Append(r.calls, c)]

\* get_template_file_info: [ret, calls]
GetTemplateFileInfo(template_path, exists, dirs, hit, do) ==
    LET f == FindTemplate(template_path, exists, dirs, hit)
        c == Call("ppt_utils.get_template_info", <<f.path>>)
    IN  IF f.exc # NoExc
        THEN [ret |-> Escaped(f.exc), calls |-> f.calls]
        ELSE IF ~f.found
        THEN [ret |-> Returned([error |-> f.error]), calls |-> f.calls]
        ELSE IF do # "ok"
        THEN [ret |-> Returned([error |-> <<"Failed to get template info: ", "<str(e)>">>]),
              calls |-> Append(f.calls, c)]
        ELSE [ret |-> Returned([info |-> <<"<template info>">>]), calls |-> Append(f.calls, c)]

\* set_core_properties: [ret, calls]
SetCoreProperties(reg, presentation_id, cur, do) ==
    LET r == ResolveId(presentation_id, cur)
        c == Call("ppt_utils.set_core_properties", <<r.pres_id>>)
    IN  IF r.exc # NoExc
        THEN [ret |-> Escaped(r.exc), calls |-> r.calls]
        ELSE IF NotLoaded(reg, r.pres_id)
        THEN [ret |-> Returned([error |-> NotLoadedMsg]), calls |-> r.calls]
        ELSE IF do # "ok"
        THEN [ret |-> Returned([success |-> FALSE,
                                error |-> <<"Failed to set core properties: ", "<str(e)>">>]),
              calls |-> Append(r.calls, c)]
        ELSE [ret |-> Returned([success |-> TRUE,
                                message |-> <<"Core properties updated successfully">>]),
              calls |-> Append(r.calls, c)]

\* a report made of the environment as it is at the call, not of the handler
GetStorageModeFromEnv(h, env, co) ==
    LET g == GetS3Handler(h, env, co)
    IN  IF g.exc # NoExc
        THEN [ret |-> Returned([success |-> FALSE,
                                error |-> <<"Failed to get storage mode: ">> \o g.exc.msg]),
              calls |-> g.calls, handler |-> g.handler, constructed |-> g.constructed]
        ELSE IF EnabledFlag(env)
        THEN [ret |-> Returned([success |-> TRUE,
                                storage_mode |-> "s3",
                                s3_bucket |-> env["S3_BUCKET_NAME"],
                                s3_prefix |-> GetEnv(env, "S3_PREFIX", DefaultPrefix),
                                s3_region |-> GetEnv(env, "AWS_DEFAULT_REGION", DefaultRegion),
                                message |-> <<"S3 storage is ENABLED - presentations will be saved to S3">>]),
              calls |-> g.calls, handler |-> g.handler, constructed |-> g.constructed]
        ELSE [ret |-> Returned([success |-> TRUE,
                                storage_mode |-> "local",
                                message |-> <<"Local storage is active - presentations will be saved to local file system">>]),
              calls |-> g.calls, handler |-> g.handler, constructed |-> g.constructed]

\* get_storage_mode: [ret, calls, handler, constructed]
GetStorageMode(h, env, co) ==
    LET g == GetS3Handler(h, env, co)
        self == g.handler[1]
    IN  IF g.exc # NoExc
        THEN [ret |-> Returned([success |-> FALSE,
                                error |-> <<"Failed to get storage mode: ">> \o g.exc.msg]),
              calls |-> g.calls, handler |-> g.handler, constructed |-> g.constructed]
        ELSE IF self.s3_enabled
        THEN [ret |-> Returned([success |-> TRUE,
                                storage_mode |-> "s3",
                                s3_bucket |-> self.s3_bucket,
                                s3_prefix |-> self.s3_prefix,
                                s3_region |-> self.s3_region,
                                message |-> <<"S3 storage is ENABLED - presentations will be saved to S3">>]),
              calls |-> g.calls, handler |-> g.handler, constructed |-> g.constructed]
        ELSE [ret |-> Returned([success |-> TRUE,
                                storage_mode |-> "local",
                                message |-> <<"Local storage is active - presentations will be saved to local file system">>]),
              calls |-> g.calls, handler |-> g.handler, constructed |-> g.constructed]

(***************************************************************************)
(* Inputs.                                                                 *)
(***************************************************************************)
DemoBucket == <<"d","e","m","o","-","b","u","c","k","e","t">>
OtherBucket == <<"b","2">>
EuRegion == <<"e","u","-","w","e","s","t","-","1">>
DecksPrefix == <<"d","e","c","k","s","/">>
DeckId == <<"d","e","c","k">>
ReportPath == <<"r","e","p","o","r","t">>
OutPath == <<"o","u","t","/","q","1",".","p","p","t","x">>
TemplatePath == <<"t","p","l","/","b","a","s","e",".","p","p","t","x">>
\* get_template_search_directories() of the test: ['.', './templates']
SearchDirs == << <<".">>, <<".","/","t","e","m","p","l","a","t","e","s">> >>

\* s repeated n times
RECURSIVE Repeat(_, _)
Repeat(s, n) == IF n = 0 THEN <<>> ELSE s \o Repeat(s, n - 1)

\* every concatenation of at most n of the given extensions
RECURSIVE ExtChains(_, _)
ExtChains(exts, n) ==
    IF n = 0 THEN {<<>>}
    ELSE LET shorter == ExtChains(exts, n - 1)
         IN  shorter \cup {c \o e : c \in shorter, e \in exts}

\* requested names: a directory part, a stem and extensions
PathDirs == {<<>>, <<"d","/">>, <<".",".","/">>, <<"d","/",".",".","/">>}
PathStems == {<<>>, <<"a">>}
PathExts == {PptxExt, <<".","P","P","T","X">>}
AllPaths ==
    {ReportPath, <<"d","/",".",".">>}
    \cup {d \o n \o e : d \in PathDirs, n \in PathStems, e \in ExtChains(PathExts, MaxExt)}

\* S3_PREFIX values: unset, or a name followed by separators
PrefixNames == {<<>>, <<"p">>, <<"p","/","q">>}
AllPrefixes == {NoneVal, DefaultPrefix} \cup {n \o Repeat(<<"/">>, k) : n \in PrefixNames, k \in 0..MaxSlashes}

EnvValues ==
    [S3_ENABLED |-> {NoneVal, <<"T","r","u","e">>},
     S3_BUCKET_NAME |-> {NoneVal, <<>>, DemoBucket},
     S3_PREFIX |-> {NoneVal, DecksPrefix},
     AWS_DEFAULT_REGION |-> {NoneVal, EuRegion}]

EnvNames == DOMAIN EnvValues

Idle == [tool |-> "none", args |-> <<>>, calls |-> <<>>, constructed |-> FALSE,
         ret |-> Returned(<<>>)]

\* what the id callback can do when it is asked (NoneVal stands for "not asked"
\* when the caller names the presentation)
CurrentFor(presentation_id, ids) ==
    IF presentation_id = NoneVal THEN ids \cup {RaiseTok} ELSE {NoneVal}

\* what the template callback can do when it is asked
DirsFor(exists) == IF exists THEN {SearchDirs} ELSE {SearchDirs, RaiseTok}

HitsFor(exists, dirs) == IF exists \/ dirs = RaiseTok THEN {0} ELSE 0..Len(dirs)

(***************************************************************************)
(* The tools, as the framework runs them: one call at a time, the result   *)
(* sent back before the next call is taken.                                *)
(***************************************************************************)
CreateCall(ids) ==
    /\ response = Idle
    /\ \E id \in ids, do \in DocOutcomes :
           LET r == CreatePresentation(presentations, id, do)
           IN  /\ Cardinality(DOMAIN r.reg) <= MaxPres
               /\ presentations' = r.reg
               /\ response' = [tool |-> "create_presentation", args |-> [id |-> id],
                               calls |-> r.calls, constructed |-> FALSE, ret |-> r.ret]
               /\ UNCHANGED <<environ, s3_handler, config_read>>

FromTemplateCall(ids) ==
    /\ response = Idle
    /\ \E id \in ids, exists \in BOOLEAN :
       \E dirs \in DirsFor(exists) :
       \E hit \in HitsFor(exists, dirs), do \in DocOutcomes :
           LET r == CreatePresentationFromTemplate(presentations, TemplatePath, id,
                                                   exists, dirs, hit, do)
           IN  /\ Cardinality(DOMAIN r.reg) <= MaxPres
               /\ presentations' = r.reg
               /\ response' = [tool |-> "create_presentation_from_template",
                               args |-> [template_path |-> TemplatePath, id |-> id],
                               calls |-> r.calls, constructed |-> FALSE, ret |-> r.ret]
               /\ UNCHANGED <<environ, s3_handler, config_read>>

OpenCall(ids) ==
    /\ response = Idle
    /\ \E id \in ids, exists \in BOOLEAN, do \in DocOutcomes :
           LET r == OpenPresentation(presentations, OutPath, id, exists, do)
           IN  /\ Cardinality(DOMAIN r.reg) <= MaxPres
               /\ presentations' = r.reg
               /\ response' = [tool |-> "open_presentation",
                               args |-> [file_path |-> OutPath, id |-> id],
                               calls |-> r.calls, constructed |-> FALSE, ret |-> r.ret]
               /\ UNCHANGED <<environ, s3_handler, config_read>>

\* the collaborator calls save_presentation reaches, given what came before
ClientFor(h) == IF h = <<>> THEN ClientOutcomes ELSE {"ok"}
SerializeFor(g) == IF g.exc = NoExc /\ g.handler[1].s3_enabled THEN DocOutcomes ELSE {"ok"}
UploadFor(g, so) ==
    IF g.exc = NoExc /\ g.handler[1].s3_enabled /\ so = "ok" THEN S3Outcomes ELSE {"ok"}
PresignFor(g, so, uo) ==
    IF g.exc = NoExc /\ g.handler[1].s3_enabled /\ so = "ok" /\ uo = "ok"
    THEN S3Outcomes ELSE {"ok"}
LocalFor(g) == IF g.exc = NoExc /\ ~g.handler[1].s3_enabled THEN DocOutcomes ELSE {"ok"}

SaveCall(paths, ids) ==
    /\ response = Idle
    /\ \E file_path \in paths, presentation_id \in ids :
       \E cur \in CurrentFor(presentation_id, ids), co \in ClientFor(s3_handler) :
       LET g == GetS3Handler(s3_handler, environ, co) IN
       \E so \in SerializeFor(g), lo \in LocalFor(g) :
       \E uo \in UploadFor(g, so) :
       \E po \in PresignFor(g, so, uo) :
           LET r == SavePresentation(presentations, s3_handler, environ, file_path,
                                     presentation_id, cur, co, so, uo, po, lo)
           IN  /\ s3_handler' = r.handler
               /\ config_read' = (config_read \/ r.constructed)
               /\ response' = [tool |-> "save_presentation",
                               args |-> [file_path |-> file_path,
                                         presentation_id |-> presentation_id,
                                         current_id |-> cur],
                               calls |-> r.calls, constructed |-> r.constructed, ret |-> r.ret]
               /\ UNCHANGED <<environ, presentations>>

InfoCall(ids) ==
    /\ response = Idle
    /\ \E presentation_id \in ids :
       \E cur \in CurrentFor(presentation_id, ids), do \in DocOutcomes :
           LET r == GetPresentationInfo(presentations, presentation_id, cur, do)
           IN  /\ response' = [tool |-> "get_presentation_info",
                               args |-> [presentation_id |-> presentation_id],
                               calls |-> r.calls, constructed |-> FALSE, ret |-> r.ret]
               /\ UNCHANGED <<environ, s3_handler, presentations, config_read>>

get_template_file_info ==
    /\ response = Idle
    /\ \E exists \in BOOLEAN :
       \E dirs \in DirsFor(exists) :
       \E hit \in HitsFor(exists, dirs), do \in DocOutcomes :
           LET r == GetTemplateFileInfo(TemplatePath, exists, dirs, hit, do)
           IN  /\ response' = [tool |-> "get_template_file_info",
                               args |-> [template_path |-> TemplatePath],
                               calls |-> r.calls, constructed |-> FALSE, ret |-> r.ret]
               /\ UNCHANGED <<environ, s3_handler, presentations, config_read>>

PropertiesCall(ids) ==
    /\ response = Idle
    /\ \E presentation_id \in ids :
       \E cur \in CurrentFor(presentation_id, ids), do \in DocOutcomes :
           LET r == SetCoreProperties(presentations, presentation_id, cur, do)
           IN  /\ response' = [tool |-> "set_core_properties",
                               args |-> [presentation_id |-> presentation_id],
                               calls |-> r.calls, constructed |-> FALSE, ret |-> r.ret]
               /\ UNCHANGED <<environ, s3_handler, presentations, config_read>>

get_storage_mode ==
    /\ response = Idle
    /\ \E co \in ClientFor(s3_handler) :
           LET r == GetStorageMode(s3_handler, environ, co)
           IN  /\ s3_handler' = r.handler
               /\ config_read' = (config_read \/ r.constructed)
               /\ response' = [tool |-> "get_storage_mode", args |-> <<>>,
                               calls |-> r.calls, constructed |-> r.constructed, ret |-> r.ret]
               /\ UNCHANGED <<environ, presentations>>

\* the environment is changed between two calls
setenv ==
    /\ response = Idle
    /\ \E name \in EnvNames : \E value \in EnvValues[name] :
           /\ environ[name] # value
           /\ environ' = [environ EXCEPT ![name] = value]
           /\ UNCHANGED <<s3_handler, presentations, config_read, response>>

\* the framework hands the result to the client
respond ==
    /\ response # Idle
    /\ response' = Idle
    /\ UNCHANGED <<environ, s3_handler, presentations, config_read>>

\* ids the callers of the main specification use
MainIds == {NoneVal, DeckId, AutoId(1)}
MainPaths == {ReportPath, OutPath}

create_presentation == CreateCall(MainIds \ {AutoId(1)})
create_presentation_from_template == FromTemplateCall(MainIds \ {AutoId(1)})
open_presentation == OpenCall(MainIds \ {AutoId(1)})
save_presentation == SaveCall(MainPaths, MainIds)
get_presentation_info == InfoCall(MainIds)
set_core_properties == PropertiesCall(MainIds)

Init ==
    /\ environ \in [EnvNames -> UNION {EnvValues[n] : n \in EnvNames}]
    /\ \A n \in EnvNames : environ[n] \in EnvValues[n]
    /\ s3_handler = <<>>
    /\ presentations = <<>>
    /\ config_read = FALSE
    /\ response = Idle

Next ==
    \/ create_presentation
    \/ create_presentation_from_template
    \/ open_presentation
    \/ save_presentation
    \/ get_presentation_info
    \/ get_template_file_info
    \/ set_core_properties
    \/ get_storage_mode
    \/ setenv
    \/ respond

Spec == Init /\ [][Next]_vars

(***************************************************************************)
(* The key layout: the server starts in remote mode with any of the        *)
(* prefixes, and presentations are saved under any of the requested names. *)
(***************************************************************************)
create_first == CreateCall({NoneVal})
save_named == SaveCall(AllPaths, {AutoId(1)})

InitKey ==
    /\ environ \in [EnvNames -> {StrTrue, DemoBucket, OtherBucket, NoneVal, EuRegion}
                                    \cup AllPrefixes]
    /\ environ["S3_ENABLED"] = StrTrue
    /\ environ["S3_BUCKET_NAME"] \in {DemoBucket, OtherBucket}
    /\ environ["S3_PREFIX"] \in AllPrefixes
    /\ environ["AWS_DEFAULT_REGION"] \in {NoneVal, EuRegion}
    /\ s3_handler = <<>>
    /\ presentations = <<>>
    /\ config_read = FALSE
    /\ response = Idle

NextKey ==
    \/ create_first
    \/ save_named
    \/ respond

SpecKey == InitKey /\ [][NextKey]_vars

(***************************************************************************)
(* The registry under callers who name their presentations themselves,     *)
(* with ids of the shape the server generates, or leave the id out.        *)
(***************************************************************************)
CallerIds == {NoneVal, DeckId, AutoId(1), AutoId(2)}

create_with_id == CreateCall(CallerIds)
template_with_id == FromTemplateCall(CallerIds)
open_with_id == OpenCall(CallerIds)

NextIds ==
    \/ create_with_id
    \/ template_with_id
    \/ open_with_id
    \/ respond

SpecIds == Init /\ [][NextIds]_vars

(***************************************************************************)
(* Vocabulary of the properties.                                           *)
(***************************************************************************)
Value == response.ret.value
CallNames == {response.calls[i].fn : i \in DOMAIN response.calls}
CallsTo(fn) == {i \in DOMAIN response.calls : response.calls[i].fn = fn}
SaveDone == response.tool = "save_presentation"
SaveSucceededS3 ==
    /\ SaveDone
    /\ response.ret.raised = "none"
    /\ Value.success
    /\ Value.storage_type = "s3"
Handler == s3_handler[1]

\* a prefix without its trailing "/": what is left up to its last character
\* that is not "/"
TrimmedPrefix(p) ==
    LET keep == {i \in DOMAIN p : p[i] # "/"}
    IN  IF keep = {} THEN <<>>
        ELSE SubSeq(p, 1, CHOOSE i \in keep : \A j \in keep : j <= i)

\* the base name of a path: its longest suffix without "/"
BaseName(path) ==
    LET starts == {i \in 1..(Len(path) + 1) : \A j \in i..Len(path) : path[j] # "/"}
    IN  SubSeq(path, CHOOSE i \in starts : \A j \in starts : i <= j, Len(path))

HasPptx(name) == EndsWith(name, PptxExt)
WithPptx(name) == IF HasPptx(name) THEN name ELSE name \o PptxExt
ReportKey ==
    <<"p","r","e","s","e","n","t","a","t","i","o","n","s","/",
      "r","e","p","o","r","t",".","p","p","t","x">>

\* C1: a successful save in remote mode returns the key
\* normalize(prefix) + "/" + filename, where normalize removes the trailing "/"
\* of the configured prefix and filename is the base name of the requested
\* name with ".pptx" appended when missing, together with
\* s3_url = "s3://" + bucket + "/" + key and
\* https_url = "https://" + bucket + ".s3." + region + ".amazonaws.com/" + key;
\* prefix "presentations/" and name "report" give "presentations/report.pptx".
C1_KeyAndUrls ==
    SaveSucceededS3 =>
        LET name == WithPptx(BaseName(response.args.file_path))
            key == TrimmedPrefix(Handler.s3_prefix) \o <<"/">> \o name
        IN  /\ Handler.s3_enabled /\ Handler.s3_bucket # <<>>
            /\ Value.key = key
            /\ Value.filename = name
            /\ Value.bucket = Handler.s3_bucket
            /\ Value.s3_url = <<"s","3",":","/","/">> \o Handler.s3_bucket \o <<"/">> \o key
            /\ Value.https_url =
                   <<"h","t","t","p","s",":","/","/">> \o Handler.s3_bucket
                   \o <<".","s","3",".">> \o Handler.s3_region
                   \o <<".","a","m","a","z","o","n","a","w","s",".","c","o","m","/">> \o key
            /\ (Handler.s3_prefix = DefaultPrefix /\ response.args.file_path = ReportPath
                    => Value.key = ReportKey)

C1_Witness ==
    /\ SaveSucceededS3
    /\ Handler.s3_bucket = DemoBucket
    /\ environ["S3_PREFIX"] = DefaultPrefix
    /\ response.args.file_path = ReportPath
    /\ Value.key = ReportKey
    /\ Value.s3_url = <<"s","3",":","/","/">> \o DemoBucket \o <<"/">> \o ReportKey

TwoExts == PptxExt \o PptxExt

\* C3 as stated: in remote mode the filename of the stored key ends with
\* ".pptx" exactly once, whatever the requested name (names ending in .pptx,
\* in .pptx.pptx, in another letter case of the extension, empty base names).
C3_ExtensionExactlyOnce ==
    SaveSucceededS3 => HasPptx(Value.filename) /\ ~EndsWith(Value.filename, TwoExts)

\* C3 as amended: the filename ends with ".pptx", and ".pptx" is appended only
\* to a base name that does not already end with ".pptx" (letter case
\* counts): a base name ending in ".pptx" is kept as it is, so the filename
\* has a double ".pptx.pptx" suffix exactly when the requested base name had.
C3_ExtensionAppendedWhenMissing ==
    SaveSucceededS3 =>
        LET base == BaseName(response.args.file_path)
        IN  /\ HasPptx(Value.filename)
            /\ HasPptx(base) => Value.filename = base
            /\ ~HasPptx(base) => /\ Value.filename = base \o PptxExt
                                 /\ ~EndsWith(Value.filename, TwoExts)
            /\ EndsWith(Value.filename, TwoExts) <=> EndsWith(base, TwoExts)

C3_Witness ==
    /\ SaveSucceededS3
    /\ response.args.file_path = <<"d","/","a">> \o TwoExts
    /\ Value.filename = <<"a">> \o TwoExts

\* C10: in remote mode the stored key is the normalized prefix, one "/", and
\* a filename without "/": no directory of the requested file_path reaches
\* the key, which lies directly under the configured prefix.
C10_KeyDirectlyUnderPrefix ==
    SaveSucceededS3 =>
        LET under == TrimmedPrefix(Handler.s3_prefix) \o <<"/">>
        IN  /\ \A i \in DOMAIN Value.filename : Value.filename[i] # "/"
            /\ Len(Value.key) = Len(under) + Len(Value.filename)
            /\ SubSeq(Value.key, 1, Len(under)) = under
            /\ \A i \in (Len(under) + 1)..Len(Value.key) : Value.key[i] # "/"

C10_Witness ==
    /\ SaveSucceededS3
    /\ response.args.file_path = <<"d","/",".",".","/","a">>
    /\ Handler.s3_prefix = <<"p","/","q","/","/">>
    /\ Value.key = <<"p","/","q","/","a",".","p","p","t","x">>

RemoteCalls == {"s3_client.upload_fileobj", "s3_client.generate_presigned_url"}
LocalCalls == {"ppt_utils.save_presentation"}

\* C2: a save_presentation call runs at most one persistence strategy, the
\* one of the resolved mode: in local mode no upload and no presigned-URL
\* request is made and the local-save routine gets the caller's file_path
\* unmodified; in remote mode the local-save routine is never called,
\* whether the upload succeeds or fails.
C2_OneStrategy ==
    SaveDone =>
        /\ Cardinality(CallsTo("s3_client.upload_fileobj")) <= 1
        /\ Cardinality(CallsTo("ppt_utils.save_presentation")) <= 1
        /\ CallNames \cap RemoteCalls = {} \/ CallNames \cap LocalCalls = {}
        /\ s3_handler = <<>> => CallNames \cap (RemoteCalls \cup LocalCalls) = {}
        /\ s3_handler # <<>> /\ ~Handler.s3_enabled =>
               /\ CallNames \cap RemoteCalls = {}
               /\ \A i \in CallsTo("ppt_utils.save_presentation") :
                      response.calls[i].args = <<response.args.file_path>>
        /\ s3_handler # <<>> /\ Handler.s3_enabled => CallNames \cap LocalCalls = {}

C2_Witness ==
    /\ SaveDone
    /\ s3_handler # <<>> /\ ~Handler.s3_enabled
    /\ response.args.file_path = OutPath
    /\ response.ret.raised = "none" /\ Value.success
    /\ Value.file_path = OutPath
    /\ CallsTo("ppt_utils.save_presentation") # {}

\* C4: when the presigned-URL derivation fails in any way after the upload
\* has succeeded, save_presentation still returns success = true with bucket,
\* key, filename, s3_url and https_url, the presigned_url left out.  (The
\* presigned URL is requested only after a successful upload.)
C4_PresignNeverFailsSave ==
    SaveDone /\ CallsTo("s3_client.generate_presigned_url") # {} =>
        /\ response.ret.raised = "none"
        /\ Value.success
        /\ {"bucket", "key", "filename", "s3_url", "https_url"} \subseteq DOMAIN Value

\* C5: no tool lets an exception escape: whatever fails, the call returns a
\* mapping.
C5_NoExceptionEscapes == response.ret.raised = "none"

ConfigPrefix == "Configuration error: "
ConfigHint == ". Please check your S3 environment variables."
IsConfigError(v) ==
    /\ ~v.success
    /\ v.error[1] = ConfigPrefix
    /\ v.error[Len(v.error)] = ConfigHint

RemoteWithoutBucket ==
    /\ environ["S3_ENABLED"] # NoneVal
    /\ Lower(environ["S3_ENABLED"]) = <<"t","r","u","e">>
    /\ environ["S3_BUCKET_NAME"] \in {NoneVal, <<>>}

\* C6: resolving the storage with remote mode enabled and the bucket absent
\* or empty gives a configuration error, never a handler: no handler is
\* cached, and save_presentation returns success = false with a message that
\* tells the caller to check the configuration, without an upload or a local
\* write.
C6_MissingBucketIsConfigurationError ==
    response.constructed /\ RemoteWithoutBucket =>
        /\ s3_handler = <<>>
        /\ response.ret.raised = "none"
        /\ ~Value.success
        /\ CallNames \subseteq {"get_current_presentation_id", "os.getenv"}
        /\ SaveDone => IsConfigError(Value)

C6_Witness ==
    /\ SaveDone
    /\ response.constructed
    /\ environ["S3_ENABLED"] = <<"T","r","u","e">>
    /\ environ["S3_BUCKET_NAME"] = <<>>
    /\ s3_handler = <<>>
    /\ IsConfigError(Value)

\* C7 as stated: the configuration is read and a handler constructed only
\* once, at first use: once the configuration has been read, no later call
\* reads it again.
C7_ConfigurationReadOnce == [][config_read => ~response'.constructed]_vars

\* C7 as amended: once a handler has been constructed successfully, every
\* later call gets that same instance, with its mode, bucket, prefix and
\* region unchanged, and reads no configuration, whatever the environment
\* has become; a construction that fails caches nothing, and the next call
\* reads the configuration again.
C7_HandlerCachedOnceConstructed ==
    [][/\ s3_handler # <<>> => s3_handler' = s3_handler /\ ~response'.constructed
       /\ s3_handler = <<>> /\ s3_handler' = <<>> /\ response'.tool = "get_storage_mode"
              => response'.constructed]_vars

C7_Witness ==
    /\ response.tool = "get_storage_mode"
    /\ ~response.constructed
    /\ s3_handler # <<>>
    /\ Handler.s3_enabled /\ Value.storage_mode = "s3"
    /\ environ["S3_ENABLED"] = NoneVal
    /\ environ["S3_BUCKET_NAME"] # Handler.s3_bucket
    /\ GetEnv(environ, "AWS_DEFAULT_REGION", DefaultRegion) # Handler.s3_region
    /\ GetEnv(environ, "S3_PREFIX", DefaultPrefix) # Handler.s3_prefix

ConstructionFailed == response.constructed /\ s3_handler = <<>>

\* C8: save_presentation reports a configuration error exactly when the
\* failure is a misconfiguration met while constructing the resolver (missing
\* bucket, or any failure to construct or authenticate the remote client);
\* upload, serialization and local I/O failures are reported otherwise.
C8_ConfigurationErrorIffMisconfigured ==
    SaveDone /\ response.ret.raised = "none" /\ ~Value.success =>
        (IsConfigError(Value) <=> ConstructionFailed)

UnknownId ==
    LET id == IF response.args.presentation_id # NoneVal
              THEN response.args.presentation_id
              ELSE response.args.current_id
    IN  /\ response.args.current_id # RaiseTok
        /\ id = NoneVal \/ id \notin DOMAIN presentations

\* C9: save_presentation called with an id the registry does not hold (or
\* with no id and no current presentation) returns at once success = false
\* and the not-loaded error: nothing is serialized, uploaded or written, no
\* resolver is initialized, and the registry is left as it was.
C9_UnknownIdFailsAtOnce ==
    [][SaveDone' /\ UnknownId' =>
          /\ response'.ret.raised = "none"
          /\ ~response'.ret.value.success
          /\ response'.ret.value.error = NotLoadedMsg
          /\ \A i \in DOMAIN response'.calls :
                 response'.calls[i].fn = "get_current_presentation_id"
          /\ ~response'.constructed
          /\ presentations' = presentations
          /\ s3_handler' = s3_handler
          /\ config_read' = config_read]_vars

C9_Witness ==
    /\ SaveDone
    /\ response.args.presentation_id = DeckId
    /\ DOMAIN presentations = {AutoId(1)}
    /\ s3_handler = <<>>
    /\ Value.error = NotLoadedMsg

\* the part of a returned key that comes from the prefix: the key without
\* "/" + filename
KeyPrefix == SubSeq(Value.key, 1, Len(Value.key) - Len(Value.filename) - 1)

\* a prefix with one trailing "/" removed when it has one
DropOneSlash(p) ==
    IF p # <<>> /\ p[Len(p)] = "/" THEN SubSeq(p, 1, Len(p) - 1) ELSE p

\* C11 as stated: the normalization used for key construction strips a single
\* trailing "/" from the prefix if present, and normalizing its result again
\* gives the same result.
C11_StripsOneSeparator ==
    SaveSucceededS3 =>
        /\ KeyPrefix = DropOneSlash(Handler.s3_prefix)
        /\ StripPrefix(KeyPrefix) = KeyPrefix

\* C11: the normalization used for key construction strips every trailing
\* "/" from the prefix, so the key's prefix part never ends in "/" and
\* normalizing it again gives the same result: normalize(normalize(p)) =
\* normalize(p), for prefixes ending in several "/" and for the empty prefix
\* too.
C11_StripsEverySeparator ==
    SaveSucceededS3 =>
        /\ KeyPrefix = TrimmedPrefix(Handler.s3_prefix)
        /\ ~EndsWith(KeyPrefix, <<"/">>)
        /\ StripPrefix(KeyPrefix) = KeyPrefix
        /\ StripPrefix(StripPrefix(Handler.s3_prefix)) = StripPrefix(Handler.s3_prefix)

C11_Witness ==
    /\ SaveSucceededS3
    /\ Handler.s3_prefix = <<"p","/","/">>
    /\ KeyPrefix = <<"p">>
    /\ response.args.file_path = <<"a">>

S3Fields == {"s3_bucket", "s3_prefix", "s3_region"}

\* C12: get_storage_mode reports the mode the resolver holds: a resolver with
\* remote mode disabled gives success = true, storage_mode = local and none of
\* the fields s3_bucket, s3_prefix and s3_region; a resolver with remote mode
\* enabled gives storage_mode = s3 with exactly its bucket, prefix and region;
\* in both cases the call leaves the presentation registry as it was and a
\* configuration that was resolved before the call as it was.
C12_StorageModeReported ==
    [][response = Idle /\ response'.tool = "get_storage_mode" =>
          /\ presentations' = presentations
          /\ s3_handler # <<>> => s3_handler' = s3_handler /\ ~response'.constructed
          /\ s3_handler' # <<>> =>
                 LET self == s3_handler'[1]
                     v == response'.ret.value
                 IN  /\ response'.ret.raised = "none"
                     /\ v.success
                     /\ ~self.s3_enabled =>
                            /\ v.storage_mode = "local"
                            /\ DOMAIN v \cap S3Fields = {}
                     /\ self.s3_enabled =>
                            /\ v.storage_mode = "s3"
                            /\ S3Fields \subseteq DOMAIN v
                            /\ v.s3_bucket = self.s3_bucket
                            /\ v.s3_prefix = self.s3_prefix
                            /\ v.s3_region = self.s3_region]_vars

C12_Witness ==
    /\ response.tool = "get_storage_mode"
    /\ s3_handler # <<>>
    /\ ~Handler.s3_enabled
    /\ Value.success /\ Value.storage_mode = "local"
    /\ DOMAIN Value \cap S3Fields = {}
    /\ EnabledFlag(environ)
    /\ environ["S3_BUCKET_NAME"] = DemoBucket
    /\ DOMAIN presentations # {}

Creators == {"create_presentation", "create_presentation_from_template", "open_presentation"}

\* a create or open call has returned a presentation id
Created(resp) ==
    /\ resp.tool \in Creators
    /\ resp.ret.raised = "none"
    /\ "presentation_id" \in DOMAIN resp.ret.value

\* C13: after any sequence of create_presentation,
\* create_presentation_from_template and open_presentation calls, with ids
\* given by the caller or left out, a call without id never replaces a
\* registry entry: the generated id presentation_{n+1}, n the size of the
\* registry, is not in the registry, and every successful call without id
\* grows the registry by exactly one entry.
C13_AutoIdNeverReplaces ==
    [][response = Idle /\ Created(response') /\ response'.args.id = NoneVal =>
          LET n == Cardinality(DOMAIN presentations)
          IN  /\ AutoId(n + 1) \notin DOMAIN presentations
              /\ response'.ret.value.presentation_id = AutoId(n + 1)
              /\ Cardinality(DOMAIN presentations') = n + 1]_vars

====
